---- MODULE Spec2Model ----
(***************************************************************************)
(* Metal_Info_Backend: the news and price ingestion pipelines.             *)
(*                                                                         *)
(*   metal_news/api/v1/services.py    NewsService                          *)
(*   metal_news/models/metal_news.py  MetalNews (table metal_news)         *)
(*   metal_prices/api/v1/services.py  MetalPriceService                    *)
(*   metal_prices/models/metal_price.py MetalPrice (table metal_prices)    *)
(*                                                                         *)
(* The database is PostgreSQL (config/settings.py:76) at READ COMMITTED:   *)
(* a statement sees the rows committed before it starts, an INSERT that    *)
(* meets an uncommitted row with the same unique key waits for that        *)
(* transaction to end, and one that meets a committed row raises           *)
(* IntegrityError.                                                         *)
(***************************************************************************)
EXTENDS Integers, Sequences, FiniteSets, TLC

(***************************************************************************)
(* Bounds of the model.                                                    *)
(***************************************************************************)
MaxCalls == 1
MaxRuns == 2
MaxCandidates == 2
MaxEntries == 2
fetch_limit == 1
MaxItems == 2
MaxFetches == 2
MaxClock == 3
MaxSignals == 3
MaxBozoEntries == 1
MaxParseEntries == 3
MaxFetchLimit == 2
MaxQueryLen == 3
MaxNewsRows == 2
MaxNameLen == 3
MaxKeywords == 2

(***************************************************************************)
(* The callers of NewsService: the manual trigger (FetchMetalNewsView.post)*)
(* and the scheduled run (fetch_metal_news_task).                          *)
(***************************************************************************)
Procs == {"manual", "task"}
FetchProcs == {"manual"}

Urls == {"https://x/a", "https://x/b"}
Titles == {"t1", "t2"}
search_terms == <<"copper prices", "aluminum market">>

NoRow == [url |-> "", title |-> "", deleted |-> FALSE]

VARIABLES
    metal_news,      \* the committed rows of table metal_news, in commit order
    pending,         \* per caller: the row inserted by its open transaction, or NoRow
    pc,              \* per caller: its position in NewsService
    calls,           \* per caller: the number of calls it has started
    articles,        \* per caller: the argument of _process_and_store
    idx,             \* per caller: the position of the loop of _process_and_store
    inserted_count,  \* per caller: inserted_count
    skipped_count,   \* per caller: skipped_count
    dropped_count,   \* per caller: candidates that left through `except Exception`
    outcome,         \* per caller: what became of each candidate of this call
    result,          \* per caller: the dict returned by the last call, or NoResult
    feed,            \* what requests.get answers for each search term
    term,            \* per caller: the position of the loop over search_terms
    all_articles,    \* per caller: all_articles of fetch_and_store_news
    term_log,        \* per caller: what each term of this run contributed
    run_log,         \* history: the store and the result at the end of each fetch run
    race,            \* history: the last pair of callers that passed the check on one url
    metal_prices,    \* the committed rows of table metal_prices, in commit order
    now,             \* the clock read by timezone.now()
    price_pc,        \* the position of the price fetch in MetalPriceService
    price_calls,     \* the number of price fetches started
    data,            \* the argument of MetalPriceService._process_and_store
    item,            \* the position of `for metal_data in data`
    fetched_at,      \* fetched_at of the running price fetch
    prices_to_create,\* prices_to_create of the running price fetch
    price_result,    \* the dict returned by the last price fetch, or NoResult
    prices_before,   \* history: metal_prices when the running price fetch started
    response,        \* what requests.get answered to the running price fetch
    reader_pc,       \* the position of the reader in get_latest_prices
    symbols,         \* the argument of get_latest_prices ({} for None)
    latest_fetch,    \* latest_fetch of the reader: <<>> for None, or <<t>>
    read_result,     \* the list returned by the last get_latest_prices
    seen_first,      \* history: the number of committed rows at the reader's first query
    seen_second,     \* history: the number of committed rows at the reader's second query
    lookup_pc,       \* the position of the caller of get_price_by_symbol
    lookup_symbol,   \* the argument of get_price_by_symbol
    lookup_latest,   \* latest_fetch of get_price_by_symbol: <<>> for None, or <<t>>
    lookup_result,   \* what get_price_by_symbol returned: <<>> for None, or <<row>>
    lookup_raised,   \* the exception get_price_by_symbol left with, or "none"
    lookup_seen,     \* history: the number of committed rows at its second query
    article,         \* the stored columns of one MetalNews article, or NoArticle
    instance,        \* the MetalNews instance a caller holds in memory
    save_pc,         \* the position of the caller in Model.save()
    update_fields,   \* the update_fields of the running save ({} for None)
    post_save,       \* the number of post_save signals sent and not yet handled
    recomputations,  \* history: search vector recomputations done for the running save
    task_state,      \* the state of fetch_metal_news_task: PENDING, STARTED, RETRY, SUCCESS, FAILURE
    task_retries,    \* self.request.retries of the task
    task_countdown,  \* the countdown in seconds of the last self.retry, or 0
    task_return,     \* what the task returned, or NoResult
    http_state,      \* FetchMetalNewsView.post: idle, handling, responded
    http_requests,   \* the number of POST requests received
    http_response,   \* the last response of FetchMetalNewsView.post, or NoHttpResponse
    parse_feed,      \* the response handed to one call of _fetch_rss_feed
    parse_limit,     \* self.fetch_limit of that call
    parse_out,       \* what that call of _fetch_rss_feed left with
    news_rows,       \* the articles the read-side queries run on
    query,           \* the argument of search_news, a sequence of characters
    search_result,   \* the rows search_news returned, as positions in news_rows
    source,          \* the source asked for, a sequence of characters
    source_path,     \* who filtered by source: the service or the list view
    source_result,   \* the rows the by-source query returned, in order
    keywords,        \* the rows of the keywords table
    keyword,         \* the name and slug given to the last Keyword saved
    keyword_raised,  \* whether that save raised IntegrityError
    keywords_before, \* the keywords table when that save began
    price_http_state,    \* FetchMetalPricesView.post: idle, handling, responded
    price_http_response, \* its last response, or NoHttpResponse
    indicator_one        \* indicatorOne of the items of the payload fetched

newsVars == <<metal_news, pending, pc, calls, articles, idx, inserted_count,
              skipped_count, dropped_count, outcome, result, race>>
fetchVars == <<feed, term, all_articles, term_log, run_log>>
priceVars == <<metal_prices, now, price_pc, price_calls, data, item, fetched_at,
               prices_to_create, price_result, prices_before, response>>
lookupVars == <<lookup_pc, lookup_symbol, lookup_latest, lookup_result, lookup_raised,
                lookup_seen>>
readerVars == <<reader_pc, symbols, latest_fetch, read_result, seen_first, seen_second,
                lookupVars>>
signalVars == <<article, instance, save_pc, update_fields, post_save, recomputations>>
parseVars == <<parse_feed, parse_limit, parse_out>>
searchVars == <<news_rows, query, search_result, source, source_path, source_result>>
keywordVars == <<keywords, keyword, keyword_raised, keywords_before>>
priceViewVars == <<price_http_state, price_http_response, indicator_one>>
queryVars == <<parseVars, searchVars, keywordVars, priceViewVars>>
parseFrame == <<searchVars, keywordVars, priceViewVars>>
searchFrame == <<parseVars, keywordVars, priceViewVars>>
keywordFrame == <<parseVars, searchVars, priceViewVars>>
priceViewFrame == <<parseVars, searchVars, keywordVars>>
callerVars == <<task_state, task_retries, task_countdown, task_return, http_state,
                http_requests, http_response>>
baseVarsButPrices == <<newsVars, fetchVars, readerVars, signalVars, callerVars>>
vars == <<newsVars, fetchVars, priceVars, readerVars, signalVars, callerVars, queryVars>>
baseVars == <<newsVars, fetchVars, priceVars, readerVars, signalVars, callerVars>>
newsVars_but_pc == <<metal_news, pending, calls, articles, idx, inserted_count,
                     skipped_count, dropped_count, outcome, result, race>>

Range(s) == {s[i] : i \in DOMAIN s}

SeqsUpTo(S, n) == UNION {[1..k -> S] : k \in 0..n}

Min(a, b) == IF a < b THEN a ELSE b

(***************************************************************************)
(* The article dicts built by _fetch_rss_feed and stored by                *)
(* _process_and_store. The title stands for the content of the article.    *)
(***************************************************************************)
Articles == [url : Urls, title : Titles]

CandidateLists == SeqsUpTo(Articles, MaxCandidates)

NoResult == [success |-> FALSE]

NoRace == [url |-> "", fresh |-> FALSE, how |-> [p \in Procs |-> "none"]]

(***************************************************************************)
(* MetalNews.objects is the SafeDeleteManager: it hides soft-deleted rows. *)
(***************************************************************************)
Visible(rows) == {r \in rows : ~r.deleted}

\* MetalNews.objects.filter(url=url).exists()
Exists_any(url) == Visible(Range(metal_news)) # {}

Exists(url) == \E r \in Visible(Range(metal_news)) : r.url = url

UniqueUrl_none(url, rows) == TRUE

\* unique=True on url and the constraint unique_news_url, over every row of
\* the table, soft-deleted ones included.
UniqueUrl(url, rows) == \A r \in rows : r.url # url

Candidate(p) == articles[p][idx[p]]

InFlight(p) == pc[p] \in {"create", "commit"}

LoopPc(list, i) == IF i > Len(list) THEN "return" ELSE "check"

Finish_abort(p, how) ==
    /\ outcome' = [outcome EXCEPT ![p] = Append(@, [url |-> Candidate(p).url, how |-> how])]
    /\ race' = IF race.how[p] = "in" THEN [race EXCEPT !.how[p] = how] ELSE race
    /\ idx' = [idx EXCEPT ![p] = @ + 1]
    /\ pc' = [pc EXCEPT ![p] = IF how = "error" THEN "raised"
                                ELSE LoopPc(articles[p], idx[p] + 1)]

\* history: the candidate of p leaves the loop body as `how`
Finish(p, how) ==
    /\ outcome' = [outcome EXCEPT ![p] = Append(@, [url |-> Candidate(p).url, how |-> how])]
    /\ race' = IF race.how[p] = "in" THEN [race EXCEPT !.how[p] = how] ELSE race
    /\ idx' = [idx EXCEPT ![p] = @ + 1]
    /\ pc' = [pc EXCEPT ![p] = LoopPc(articles[p], idx[p] + 1)]

Idle(p) == pc[p] \in {"idle", "done"}

\* _process_and_store(articles): the two counters start at 0
Enter(p, list) ==
    /\ articles' = [articles EXCEPT ![p] = list]
    /\ idx' = [idx EXCEPT ![p] = 1]
    /\ inserted_count' = [inserted_count EXCEPT ![p] = 0]
    /\ skipped_count' = [skipped_count EXCEPT ![p] = 0]
    /\ dropped_count' = [dropped_count EXCEPT ![p] = 0]
    /\ outcome' = [outcome EXCEPT ![p] = <<>>]
    /\ pc' = [pc EXCEPT ![p] = LoopPc(list, 1)]

\* a caller hands a candidate list to _process_and_store (as the tests do)
ProcessAndStore(p) ==
    /\ UNCHANGED <<priceVars, readerVars, signalVars, callerVars, queryVars>>
    /\ Idle(p)
    /\ calls[p] < MaxCalls
    /\ \E list \in CandidateLists : Enter(p, list)
    /\ calls' = [calls EXCEPT ![p] = @ + 1]
    /\ result' = [result EXCEPT ![p] = NoResult]
    /\ all_articles' = [all_articles EXCEPT ![p] = <<>>]
    /\ UNCHANGED <<metal_news, pending, race, feed, term, term_log, run_log>>

OnExisting_update(table, a) ==
    [i \in DOMAIN table |->
        IF table[i].url = a.url /\ ~table[i].deleted
        THEN [table[i] EXCEPT !.title = a.title]
        ELSE table[i]]

\* `skipped_count += 1; continue` for a url that is stored: the candidate's
\* content is written nowhere
OnExisting(table, a) == table

\* the existence check, first statement of the transaction of one candidate
CheckExists(p) ==
    /\ UNCHANGED <<priceVars, readerVars, signalVars, callerVars, queryVars>>
    /\ pc[p] = "check"
    /\ LET url == Candidate(p).url
           racers == {q \in Procs \ {p} : InFlight(q) /\ Candidate(q).url = url}
       IN  IF Exists(url)
           THEN /\ skipped_count' = [skipped_count EXCEPT ![p] = @ + 1]
                /\ metal_news' = OnExisting(metal_news, Candidate(p))
                /\ Finish(p, "exists")
           ELSE /\ pc' = [pc EXCEPT ![p] = "create"]
                /\ metal_news' = metal_news
                /\ race' = IF racers = {} THEN race
                           ELSE [url |-> url,
                                 fresh |-> UniqueUrl(url, Range(metal_news)),
                                 how |-> [q \in Procs |->
                                     IF q \in racers \cup {p} THEN "in" ELSE "none"]]
                /\ UNCHANGED <<skipped_count, outcome, idx>>
    /\ UNCHANGED <<pending, calls, articles, inserted_count,
                   dropped_count, result, fetchVars>>

SkippedAfterIntegrityError_forgotten(n) == n

\* `except IntegrityError`: skipped_count += 1
SkippedAfterIntegrityError(n) == n + 1

\* MetalNews.objects.create(...): the INSERT waits while another open
\* transaction holds a row with this url, then either violates the unique
\* constraint (IntegrityError, counted as skipped) or succeeds.
Create(p) ==
    /\ UNCHANGED <<priceVars, readerVars, signalVars, callerVars, queryVars>>
    /\ pc[p] = "create"
    /\ LET a == Candidate(p)
       IN  /\ UniqueUrl(a.url, {pending[q] : q \in Procs \ {p}})
           /\ IF UniqueUrl(a.url, Range(metal_news))
              THEN /\ pending' = [pending EXCEPT ![p] =
                                     [url |-> a.url, title |-> a.title, deleted |-> FALSE]]
                   /\ inserted_count' = [inserted_count EXCEPT ![p] = @ + 1]
                   /\ pc' = [pc EXCEPT ![p] = "commit"]
                   /\ UNCHANGED <<skipped_count, outcome, idx, race>>
              ELSE /\ skipped_count' = [skipped_count EXCEPT ![p] = SkippedAfterIntegrityError(@)]
                   /\ Finish(p, "integrity")
                   /\ UNCHANGED <<pending, inserted_count>>
    /\ UNCHANGED <<metal_news, calls, articles, dropped_count, result, fetchVars>>

\* the statements of the transaction raise something that is no
\* IntegrityError (a value too long for its column, a lost connection):
\* `except Exception` logs it and goes on with the next candidate.
StorageError(p) ==
    /\ UNCHANGED <<priceVars, readerVars, signalVars, callerVars, queryVars>>
    /\ pc[p] = "create"
    /\ dropped_count' = [dropped_count EXCEPT ![p] = @ + 1]
    /\ Finish(p, "error")
    /\ UNCHANGED <<metal_news, pending, calls, articles, inserted_count,
                   skipped_count, result, fetchVars>>

\* leaving `with transaction.atomic()`: the inserted row becomes visible
Commit(p) ==
    /\ UNCHANGED <<priceVars, readerVars, signalVars, callerVars, queryVars>>
    /\ pc[p] = "commit"
    /\ metal_news' = Append(metal_news, pending[p])
    /\ pending' = [pending EXCEPT ![p] = NoRow]
    /\ Finish(p, "inserted")
    /\ UNCHANGED <<calls, articles, inserted_count, skipped_count, dropped_count,
                   result, fetchVars>>

ProcessAndStoreResult_counted(p) ==
    [success |-> TRUE,
     message |-> <<"Fetched and stored", inserted_count[p], "new articles">>,
     inserted |-> inserted_count[p],
     skipped |-> skipped_count[p],
     total_fetched |-> inserted_count[p] + skipped_count[p]]

ProcessAndStoreResult(p) ==
    [success |-> TRUE,
     message |-> <<"Fetched and stored", inserted_count[p], "new articles">>,
     inserted |-> inserted_count[p],
     skipped |-> skipped_count[p],
     total_fetched |-> Len(articles[p])]

\* the return of _process_and_store, which a fetch run returns unchanged
Return(p) ==
    /\ UNCHANGED <<priceVars, readerVars, signalVars, callerVars, queryVars>>
    /\ pc[p] = "return"
    /\ result' = [result EXCEPT ![p] = ProcessAndStoreResult(p)]
    /\ pc' = [pc EXCEPT ![p] = "done"]
    /\ run_log' = IF all_articles[p] = <<>> THEN run_log
                  ELSE Append(run_log, [metal_news |-> metal_news,
                                        result |-> ProcessAndStoreResult(p),
                                        dropped |-> dropped_count[p]])
    /\ UNCHANGED <<metal_news, pending, calls, articles, idx, inserted_count,
                   skipped_count, dropped_count, outcome, race, feed, term,
                   all_articles, term_log>>

\* an administrator deletes an article: SOFT_DELETE flags the row
SoftDelete(i) ==
    /\ UNCHANGED <<priceVars, readerVars, signalVars, callerVars, queryVars>>
    /\ i \in DOMAIN metal_news
    /\ ~metal_news[i].deleted
    /\ metal_news' = [metal_news EXCEPT ![i].deleted = TRUE]
    /\ UNCHANGED <<pending, pc, calls, articles, idx, inserted_count, skipped_count,
                   dropped_count, outcome, result, race, fetchVars>>

(***************************************************************************)
(* fetch_and_store_news and _fetch_rss_feed.                               *)
(***************************************************************************)

\* the entries feedparser hands out: with a link and a title, without a
\* link, or one whose parsing raises
Entries ==
    {[link |-> u, title |-> t, raises |-> FALSE] : u \in Urls, t \in Titles}
    \cup {[link |-> "", title |-> "t1", raises |-> FALSE],
          [link |-> "https://x/a", title |-> "t1", raises |-> TRUE]}

\* what requests.get and feedparser.parse answer for one search term: the
\* request fails, or a feed is parsed; feedparser flags a malformed feed with
\* bozo and still hands out the entries it could read
FeedResponses ==
    {[kind |-> k, bozo |-> FALSE, entries |-> <<>>] : k \in {"request_error", "other_error"}}
    \cup {[kind |-> "ok", bozo |-> FALSE, entries |-> es] : es \in SeqsUpTo(Entries, MaxEntries)}
    \cup {[kind |-> "ok", bozo |-> TRUE, entries |-> es] : es \in SeqsUpTo(Entries, MaxBozoEntries)}

NoFeed == [t \in DOMAIN search_terms |-> [kind |-> "ok", bozo |-> FALSE, entries |-> <<>>]]

\* the body of `for entry in feed.entries[:self.fetch_limit]`
RECURSIVE ParseEntries(_)
ParseEntries(es) ==
    IF es = <<>> THEN <<>>
    ELSE LET e == Head(es)
             rest == ParseEntries(Tail(es))
         IN  IF e.raises \/ e.link = "" THEN rest
             ELSE <<[url |-> e.link, title |-> e.title]>> \o rest

Truncate_none(es, limit) == es

\* feed.entries[:self.fetch_limit]
Truncate(es, limit) == SubSeq(es, 1, Min(limit, Len(es)))

\* _fetch_rss_feed(search_term) of a service whose FETCH_LIMIT is `limit`:
\* the exception it leaves with, or its list
FetchRssFeedWith(resp, limit) ==
    IF resp.kind = "request_error"
    THEN [raised |-> "RSSFeedError", articles |-> <<>>]
    ELSE IF resp.kind = "other_error"
    THEN [raised |-> "Exception", articles |-> <<>>]
    ELSE [raised |-> "none", articles |-> ParseEntries(Truncate(resp.entries, limit))]

\* _fetch_rss_feed(search_term) under the configured FETCH_LIMIT
FetchRssFeed(resp) == FetchRssFeedWith(resp, fetch_limit)

\* the feeds and limits one call of _fetch_rss_feed is tried on
ParseResponses ==
    {[kind |-> "ok", bozo |-> FALSE, entries |-> es] : es \in SeqsUpTo(Entries, MaxParseEntries)}

NoParse == [raised |-> "none", articles |-> <<>>]

\* articles = service._fetch_rss_feed(search_term), on any feed and limit
FetchRssFeedCall ==
    /\ \E resp \in ParseResponses, limit \in 1..MaxFetchLimit :
           /\ parse_feed' = resp
           /\ parse_limit' = limit
           /\ parse_out' = FetchRssFeedWith(resp, limit)
    /\ UNCHANGED <<baseVars, parseFrame>>

InitParse ==
    /\ parse_feed = [kind |-> "ok", bozo |-> FALSE, entries |-> <<>>]
    /\ parse_limit = 1
    /\ parse_out = NoParse

Caught_rss_only(exc) == exc = "RSSFeedError"

\* `except Exception as e:` around the fetch of one term
Caught(exc) == TRUE

DictPut(d, a) ==
    IF \E i \in DOMAIN d : d[i].url = a.url
    THEN [i \in DOMAIN d |-> IF d[i].url = a.url THEN a ELSE d[i]]
    ELSE Append(d, a)

RECURSIVE DictValues(_)
DictValues(s) ==
    IF s = <<>> THEN <<>>
    ELSE DictPut(DictValues(SubSeq(s, 1, Len(s) - 1)), s[Len(s)])

unique_articles_all(s) == s

\* list({article["url"]: article for article in all_articles}.values())
unique_articles(s) == DictValues(s)

FetchStart(p) ==
    /\ UNCHANGED <<priceVars, readerVars, signalVars, callerVars, queryVars>>
    /\ Idle(p)
    /\ calls[p] < MaxRuns
    /\ calls' = [calls EXCEPT ![p] = @ + 1]
    /\ pc' = [pc EXCEPT ![p] = "fetch"]
    /\ term' = [term EXCEPT ![p] = 1]
    /\ all_articles' = [all_articles EXCEPT ![p] = <<>>]
    /\ term_log' = [term_log EXCEPT ![p] = <<>>]
    /\ result' = [result EXCEPT ![p] = NoResult]
    /\ UNCHANGED <<metal_news, pending, articles, idx, inserted_count, skipped_count,
                   dropped_count, outcome, race, feed, run_log>>

\* one turn of `for search_term in self.search_terms`
FetchTerm(p) ==
    /\ UNCHANGED <<priceVars, readerVars, signalVars, callerVars, queryVars>>
    /\ pc[p] = "fetch"
    /\ term[p] <= Len(search_terms)
    /\ LET r == FetchRssFeed(feed[term[p]])
       IN  /\ term_log' = [term_log EXCEPT ![p] = Append(@, r)]
           /\ IF r.raised = "none"
              THEN /\ all_articles' = [all_articles EXCEPT ![p] = @ \o r.articles]
                   /\ term' = [term EXCEPT ![p] = @ + 1]
                   /\ pc' = pc
              ELSE IF Caught(r.raised)
              THEN /\ term' = [term EXCEPT ![p] = @ + 1]
                   /\ UNCHANGED <<all_articles, pc>>
              ELSE /\ pc' = [pc EXCEPT ![p] = "raised"]
                   /\ UNCHANGED <<all_articles, term>>
    /\ UNCHANGED <<newsVars_but_pc, feed, run_log>>

EmptyResult ==
    [success |-> TRUE,
     message |-> "No new articles found",
     inserted |-> 0,
     total_fetched |-> 0]

\* after the loop: the early return of an empty fetch, or the merge by url
\* and the call of _process_and_store
Merge(p) ==
    /\ UNCHANGED <<priceVars, readerVars, signalVars, callerVars, queryVars>>
    /\ pc[p] = "fetch"
    /\ term[p] > Len(search_terms)
    /\ IF all_articles[p] = <<>>
       THEN /\ result' = [result EXCEPT ![p] = EmptyResult]
            /\ pc' = [pc EXCEPT ![p] = "done"]
            /\ run_log' = Append(run_log, [metal_news |-> metal_news,
                                           result |-> EmptyResult,
                                           dropped |-> 0])
            /\ UNCHANGED <<articles, idx, inserted_count, skipped_count,
                           dropped_count, outcome>>
       ELSE /\ Enter(p, unique_articles(all_articles[p]))
            /\ UNCHANGED <<result, run_log>>
    /\ UNCHANGED <<metal_news, pending, calls, race, feed, term, all_articles, term_log>>

(***************************************************************************)
(* MetalPriceService: the price fetch and the latest-batch query.          *)
(***************************************************************************)
Materials == {"Tense", "Troma"}

\* the values a payload carries where a number is expected; Decimal(str(v))
\* raises InvalidOperation for "abc"
ChartIndicator == "0.0167"
PriceLists == {<<>>, <<"0.98">>, <<"abc">>}

\* one item of the payload; material "" stands for a missing or empty one
Items == [material : Materials \cup {""}, prices : PriceLists]

Payloads == SeqsUpTo(Items, MaxItems)

DecimalOk(v) == v \in {"0", "0.98", "0.0167"}

\* prices[-1]["priceNormalised"] if prices else metal_data.get("chartIndicator", 0)
LatestPrice(it) ==
    IF it.prices # <<>> THEN it.prices[Len(it.prices)] ELSE ChartIndicator

ItemOutcome_swallow(it) ==
    IF it.material = "" \/ ~DecimalOk(LatestPrice(it)) THEN "skip" ELSE "row"

ItemOutcome_keep_all(it) ==
    IF ~DecimalOk(LatestPrice(it)) THEN "raise" ELSE "row"

\* one turn of `for metal_data in data`: the item is skipped (no material),
\* or Decimal(...) raises, or a MetalPrice is built
ItemOutcome(it) ==
    IF it.material = "" THEN "skip"
    ELSE IF ~DecimalOk(LatestPrice(it)) THEN "raise"
    ELSE "row"

RowFetchedAt_per_item(at, clock) == clock

\* fetched_at=fetched_at in MetalPrice(...): the value read before the loop
RowFetchedAt(at, clock) == at

\* MetalPrice(symbol=material, ..., fetched_at=fetched_at); batch is the
\* history of which fetch created the row
NewPrice(it) ==
    [symbol |-> it.material,
     price_usd |-> LatestPrice(it),
     fetched_at |-> RowFetchedAt(fetched_at, now),
     batch |-> price_calls]

Stage_save_each(table, created, row) ==
    [table |-> Append(table, row), created |-> Append(created, row)]

\* prices_to_create.append(metal_price): nothing reaches the table in the loop
Stage(table, created, row) ==
    [table |-> table, created |-> Append(created, row)]

\* timezone.now() moves on
Tick ==
    /\ now < MaxClock
    /\ now' = now + 1
    /\ UNCHANGED <<queryVars, callerVars, signalVars, newsVars, fetchVars, readerVars, metal_prices, price_pc, price_calls,
                   data, item, fetched_at, prices_to_create, price_result, prices_before,
                   response>>

\* what the external API answers: the request fails (connection error,
\* timeout, non-2xx status at raise_for_status), or the body is JSON that is
\* not a list, or it is a list
RequestFailures == {"connection_error", "timeout", "http_error"}

ApiResponses ==
    {[kind |-> k, body |-> <<>>] : k \in RequestFailures \cup {"not_list"}}
    \cup {[kind |-> "list", body |-> d] : d \in Payloads}

NoResponse == [kind |-> "list", body |-> <<>>]

ResponseOutcome_any_body(resp) ==
    IF resp.kind \in RequestFailures THEN "ExternalAPIError" ELSE "none"

\* the try/except around requests.get and the isinstance(data, list) test:
\* the exception fetch_and_store_prices leaves with, or "none"
ResponseOutcome(resp) ==
    IF resp.kind \in RequestFailures THEN "ExternalAPIError"
    ELSE IF resp.kind # "list" THEN "ExternalAPIError"
    ELSE "none"

\* fetch_and_store_prices up to the loop: the request, the shape test, and
\* the start of _process_and_store(data) with fetched_at = timezone.now();
\* the clock is past that value for every later reading (each fetch waits
\* for an HTTP answer first, so two fetches never read the same instant)
PriceStartCall ==
    /\ price_pc \in {"idle", "done", "raised", "external_api_error"}
    /\ price_calls < MaxFetches
    /\ price_calls' = price_calls + 1
    /\ \E resp \in ApiResponses :
           /\ response' = resp
           /\ data' = resp.body
           /\ IF ResponseOutcome(resp) = "none"
              THEN /\ price_pc' = "loop"
                   /\ fetched_at' = now
                   /\ now' = now + 1
              ELSE /\ price_pc' = "external_api_error"
                   /\ fetched_at' = fetched_at
                   /\ now' = now
    /\ prices_to_create' = <<>>
    /\ item' = 1
    /\ price_result' = NoResult
    /\ prices_before' = metal_prices
    /\ UNCHANGED metal_prices

PriceStart ==
    /\ PriceStartCall
    /\ UNCHANGED <<queryVars, callerVars, signalVars, newsVars, fetchVars, readerVars>>

PriceItem ==
    /\ price_pc = "loop"
    /\ item <= Len(data)
    /\ LET what == ItemOutcome(data[item])
           staged == Stage(metal_prices, prices_to_create, NewPrice(data[item]))
       IN  IF what = "skip"
           THEN /\ item' = item + 1
                /\ UNCHANGED <<price_pc, prices_to_create, metal_prices>>
           ELSE IF what = "raise"
           THEN /\ price_pc' = "raised"
                /\ UNCHANGED <<item, prices_to_create, metal_prices>>
           ELSE /\ item' = item + 1
                /\ prices_to_create' = staged.created
                /\ metal_prices' = staged.table
                /\ price_pc' = price_pc
    /\ UNCHANGED <<queryVars, callerVars, signalVars, newsVars, fetchVars, readerVars, now, price_calls, data, fetched_at,
                   price_result, prices_before, response>>

PriceResult ==
    [success |-> TRUE,
     message |-> <<"Fetched and stored", Len(prices_to_create), "metal prices">>,
     inserted |-> Len(prices_to_create),
     fetched_at |-> fetched_at,
     prices |-> [i \in DOMAIN prices_to_create |-> prices_to_create[i].symbol]]

BulkCreate_upsert(table, created) ==
    SelectSeq(table, LAMBDA r : \A k \in DOMAIN created : created[k].symbol # r.symbol)
    \o created

\* MetalPrice.objects.bulk_create(prices_to_create): plain INSERTs, the table
\* has no unique constraint on symbol and nothing is looked up first
BulkCreate(table, created) == table \o created

\* MetalPrice.objects.bulk_create(prices_to_create), the return, and the
\* commit of @transaction.atomic: the rows become visible together
PriceBulkCreate ==
    /\ price_pc = "loop"
    /\ item > Len(data)
    /\ metal_prices' = BulkCreate(metal_prices, prices_to_create)
    /\ price_result' = PriceResult
    /\ price_pc' = "done"
    /\ UNCHANGED <<queryVars, callerVars, signalVars, newsVars, fetchVars, readerVars, now, price_calls, data, item,
                   fetched_at, prices_to_create, prices_before, response>>

MaxOf(S) == CHOOSE x \in S : \A y \in S : y <= x

\* MetalPrice.objects.aggregate(latest=Max("fetched_at"))["latest"]
LatestFetch(table) ==
    IF table = <<>> THEN <<>> ELSE <<MaxOf({table[i].fetched_at : i \in DOMAIN table})>>

SymbolArgs == {{}, {"Tense"}}

\* the first query of get_latest_prices(symbols), and `return []`
ReadLatestFetch ==
    /\ reader_pc \in {"idle", "done"}
    /\ \E sy \in SymbolArgs : symbols' = sy
    /\ latest_fetch' = LatestFetch(metal_prices)
    /\ IF LatestFetch(metal_prices) = <<>>
       THEN reader_pc' = "done" /\ read_result' = <<>>
       ELSE reader_pc' = "filter" /\ read_result' = read_result
    /\ seen_first' = Len(metal_prices)
    /\ seen_second' = Len(metal_prices)
    /\ UNCHANGED <<queryVars, callerVars, signalVars, newsVars, fetchVars, priceVars, lookupVars>>

Selected_any_batch(table, at, sy) ==
    {i \in DOMAIN table : sy = {} \/ table[i].symbol \in sy}

\* the rows of queryset.filter(fetched_at=latest_fetch), filtered by symbol
Selected(table, at, sy) ==
    {i \in DOMAIN table :
        table[i].fetched_at = at /\ (sy = {} \/ table[i].symbol \in sy)}

\* the orders .order_by("symbol") may give: symbols ascending, in any order
\* among equal symbols. Symbols compare by their first letters that differ:
\* "Tense" < "Troma".
SymbolRank(sym) == IF sym = "Tense" THEN 1 ELSE IF sym = "Troma" THEN 2 ELSE 0

OrderedBySymbol(table, idxs) ==
    {s \in [1..Cardinality(idxs) -> idxs] :
        /\ \A a, b \in DOMAIN s : a # b => s[a] # s[b]
        /\ \A a, b \in DOMAIN s :
               a < b => SymbolRank(table[s[a]].symbol) <= SymbolRank(table[s[b]].symbol)}

\* the second query of get_latest_prices
ReadFilter ==
    /\ reader_pc = "filter"
    /\ \E s \in OrderedBySymbol(metal_prices,
                                Selected(metal_prices, latest_fetch[1], symbols)) :
           read_result' = [k \in DOMAIN s |-> metal_prices[s[k]]]
    /\ reader_pc' = "done"
    /\ seen_second' = Len(metal_prices)
    /\ UNCHANGED <<queryVars, callerVars, signalVars, newsVars, fetchVars, priceVars, symbols, latest_fetch, seen_first,
                   lookupVars>>

\* the first query of get_price_by_symbol(symbol), and `return None`
LookupLatestFetch ==
    /\ lookup_pc \in {"idle", "done", "raised"}
    /\ \E sym \in Materials : lookup_symbol' = sym
    /\ lookup_latest' = LatestFetch(metal_prices)
    /\ lookup_pc' = IF LatestFetch(metal_prices) = <<>> THEN "done" ELSE "get"
    /\ lookup_result' = <<>>
    /\ lookup_raised' = "none"
    /\ lookup_seen' = Len(metal_prices)
    /\ UNCHANGED <<queryVars, callerVars, signalVars, newsVars, fetchVars, priceVars, reader_pc, symbols, latest_fetch,
                   read_result, seen_first, seen_second>>

\* QuerySet.get(): the one row that matches, DoesNotExist when none does,
\* MultipleObjectsReturned when more than one does
Get(rows) ==
    IF rows = <<>> THEN [raised |-> "DoesNotExist", row |-> <<>>]
    ELSE IF Len(rows) = 1 THEN [raised |-> "none", row |-> <<rows[1]>>]
    ELSE [raised |-> "MultipleObjectsReturned", row |-> <<>>]

\* MetalPrice.objects.get(symbol=symbol, fetched_at=latest_fetch) inside
\* try/except MetalPrice.DoesNotExist
LookupGet ==
    /\ lookup_pc = "get"
    /\ LET got == Get(SelectSeq(metal_prices,
                                LAMBDA r : /\ r.symbol = lookup_symbol
                                           /\ r.fetched_at = lookup_latest[1]))
       IN  IF got.raised = "DoesNotExist"
           THEN lookup_pc' = "done" /\ lookup_result' = <<>> /\ lookup_raised' = "none"
           ELSE IF got.raised = "none"
           THEN lookup_pc' = "done" /\ lookup_result' = got.row /\ lookup_raised' = "none"
           ELSE /\ lookup_pc' = "raised"
                /\ lookup_result' = <<>>
                /\ lookup_raised' = got.raised
    /\ lookup_seen' = Len(metal_prices)
    /\ UNCHANGED <<queryVars, callerVars, signalVars, newsVars, fetchVars, priceVars, reader_pc, symbols, latest_fetch,
                   read_result, seen_first, seen_second, lookup_symbol, lookup_latest>>

InitPrices ==
    /\ metal_prices = <<>>
    /\ now = 1
    /\ price_pc = "idle"
    /\ price_calls = 0
    /\ data = <<>>
    /\ item = 1
    /\ fetched_at = 1
    /\ prices_to_create = <<>>
    /\ price_result = NoResult
    /\ prices_before = <<>>
    /\ response = NoResponse
    /\ reader_pc = "idle"
    /\ symbols = {}
    /\ latest_fetch = <<>>
    /\ read_result = <<>>
    /\ seen_first = 0
    /\ seen_second = 0
    /\ lookup_pc = "idle"
    /\ lookup_symbol = "Tense"
    /\ lookup_latest = <<>>
    /\ lookup_result = <<>>
    /\ lookup_raised = "none"
    /\ lookup_seen = 0

(***************************************************************************)
(* The write path of one article: Model.save() and the post_save receiver  *)
(* update_search_vector.                                                    *)
(***************************************************************************)
TitleValues == {"copper up", "zinc down"}
DescriptionValues == {"", "summary"}
SourceValues == {"Reuters", "Mining.com"}

ContentFields == {"title", "description", "source"}
SavedFields == ContentFields \cup {"search_vector"}

\* SearchVector("title", weight="A") + SearchVector("description", weight="B")
\* + SearchVector("source", weight="C"), computed from the stored columns
WeightedVector(r) ==
    <<[weight |-> "A", text |-> r.title],
      [weight |-> "B", text |-> r.description],
      [weight |-> "C", text |-> r.source]>>

NullVector == <<>>

NewInstances ==
    [title : TitleValues, description : DescriptionValues, source : SourceValues,
     search_vector : {NullVector}]

NoArticle == [title |-> "", description |-> "", source |-> "", search_vector |-> NullVector]

\* the arguments of save(update_fields=...): {} stands for None
UpdateFieldsArgs == (SUBSET SavedFields)

\* the UPDATE (or INSERT) of Model.save(): every column, or the named ones,
\* from the instance in memory
Written(stored, inst, uf) ==
    [f \in DOMAIN stored |-> IF uf = {} \/ f \in uf THEN inst[f] ELSE stored[f]]

ReturnsEarly_only_vector(uf) == uf = {"search_vector"}

\* `if kwargs.get("update_fields") and "search_vector" in kwargs["update_fields"]: return`
ReturnsEarly(uf) == uf # {} /\ "search_vector" \in uf

UpdateSendsPostSave_resent == TRUE

\* QuerySet.update() is one SQL UPDATE: it calls no save() and sends no signal
UpdateSendsPostSave == FALSE

\* MetalNews.objects.create(title=..., description=..., source=...) of the
\* news fetch: the INSERT of save(), after which post_save is sent
NewsCreate ==
    /\ save_pc \in {"idle", "done"}
    /\ article = NoArticle
    /\ \E inst \in NewInstances :
           /\ instance' = inst
           /\ article' = inst
    /\ update_fields' = {}
    /\ post_save' = 1
    /\ recomputations' = 0
    /\ save_pc' = "sent"
    /\ UNCHANGED <<newsVars, fetchVars, priceVars, readerVars, callerVars, queryVars>>

\* MetalNews.objects.get(...): the caller holds the stored columns
Load ==
    /\ save_pc \in {"idle", "done"}
    /\ article # NoArticle
    /\ instance' = article
    /\ UNCHANGED <<article, save_pc, update_fields, post_save, recomputations>>
    /\ UNCHANGED <<newsVars, fetchVars, priceVars, readerVars, callerVars, queryVars>>

\* the caller assigns a content field of the instance it holds
Assign ==
    /\ save_pc \in {"idle", "done"}
    /\ article # NoArticle
    /\ \/ \E v \in TitleValues : instance' = [instance EXCEPT !.title = v]
       \/ \E v \in DescriptionValues : instance' = [instance EXCEPT !.description = v]
       \/ \E v \in SourceValues : instance' = [instance EXCEPT !.source = v]
    /\ UNCHANGED <<article, save_pc, update_fields, post_save, recomputations>>
    /\ UNCHANGED <<newsVars, fetchVars, priceVars, readerVars, callerVars, queryVars>>

\* instance.save() or instance.save(update_fields=[...]) on a stored
\* article: the UPDATE, after which post_save is sent
Save ==
    /\ save_pc \in {"idle", "done"}
    /\ article # NoArticle
    /\ \E uf \in UpdateFieldsArgs :
           /\ update_fields' = uf
           /\ article' = Written(article, instance, uf)
    /\ post_save' = 1
    /\ recomputations' = 0
    /\ save_pc' = "sent"
    /\ UNCHANGED instance
    /\ UNCHANGED <<newsVars, fetchVars, priceVars, readerVars, callerVars, queryVars>>

\* update_search_vector(sender, instance, **kwargs) handles one post_save
update_search_vector ==
    /\ save_pc = "sent"
    /\ post_save > 0
    /\ recomputations < MaxSignals
    /\ IF ReturnsEarly(update_fields)
       THEN /\ post_save' = post_save - 1
            /\ UNCHANGED <<article, recomputations>>
       ELSE /\ article' = [article EXCEPT !.search_vector = WeightedVector(article)]
            /\ recomputations' = recomputations + 1
            /\ post_save' = post_save - 1 + (IF UpdateSendsPostSave THEN 1 ELSE 0)
    /\ UNCHANGED <<instance, save_pc, update_fields>>
    /\ UNCHANGED <<newsVars, fetchVars, priceVars, readerVars, callerVars, queryVars>>

\* every receiver has returned: save() returns
SaveReturns ==
    /\ save_pc = "sent"
    /\ post_save = 0
    /\ save_pc' = "done"
    /\ UNCHANGED <<article, instance, update_fields, post_save, recomputations>>
    /\ UNCHANGED <<newsVars, fetchVars, priceVars, readerVars, callerVars, queryVars>>

InitSignal ==
    /\ article = NoArticle
    /\ instance = NoArticle
    /\ save_pc = "idle"
    /\ update_fields = {}
    /\ post_save = 0
    /\ recomputations = 0

(***************************************************************************)
(* The callers of fetch_and_store_news: the Celery task and the view.      *)
(***************************************************************************)
max_retries == 3
decimal_places == 10

\* countdown=60 * 5
RetryCountdown == 60 * 5

\* the exception fetch_and_store_news left with, or "none" when it returned
ServiceRaised(p) ==
    IF pc[p] = "raised" THEN term_log[p][Len(term_log[p])].raised ELSE "none"

\* the worker takes the task: its first run, or a run re-scheduled by retry
TaskRun ==
    /\ task_state \in {"PENDING", "RETRY"}
    /\ task_state' = "STARTED"
    /\ UNCHANGED <<task_retries, task_countdown, task_return, http_state, http_requests,
                   http_response>>
    /\ UNCHANGED <<newsVars, fetchVars, priceVars, readerVars, signalVars, queryVars>>

\* service = NewsService(); result = service.fetch_and_store_news()
TaskCallsService ==
    /\ task_state = "STARTED"
    /\ calls["task"] = task_retries
    /\ FetchStart("task")

\* the end of fetch_metal_news_task: `return result`, or
\* `except RSSFeedError: raise self.retry(exc=e, countdown=60 * 5)`, which
\* re-schedules the task until max_retries is used up and then fails it, or
\* `except Exception: raise`
TaskOutcome(exc, retries) ==
    IF exc = "none" THEN [state |-> "SUCCESS", retries |-> retries, countdown |-> 0]
    ELSE IF exc = "RSSFeedError" /\ retries < max_retries
    THEN [state |-> "RETRY", retries |-> retries + 1, countdown |-> RetryCountdown]
    ELSE [state |-> "FAILURE", retries |-> retries, countdown |-> 0]

TaskFinish ==
    /\ task_state = "STARTED"
    /\ calls["task"] = task_retries + 1
    /\ pc["task"] \in {"done", "raised"}
    /\ LET out == TaskOutcome(ServiceRaised("task"), task_retries)
       IN  /\ task_state' = out.state
           /\ task_retries' = out.retries
           /\ task_countdown' = out.countdown
           /\ task_return' = IF out.state = "SUCCESS" THEN result["task"] ELSE NoResult
    /\ UNCHANGED <<http_state, http_requests, http_response>>
    /\ UNCHANGED <<newsVars, fetchVars, priceVars, readerVars, signalVars, queryVars>>

NoHttpResponse == [status |-> 0, success |-> FALSE, error |-> ""]

\* POST /api/v1/metal-news/fetch/ arrives
PostReceived ==
    /\ http_state \in {"idle", "responded"}
    /\ http_requests < MaxRuns
    /\ http_requests' = http_requests + 1
    /\ http_state' = "handling"
    /\ http_response' = NoHttpResponse
    /\ UNCHANGED <<task_state, task_retries, task_countdown, task_return>>
    /\ UNCHANGED <<newsVars, fetchVars, priceVars, readerVars, signalVars, queryVars>>

\* result = self.news_service.fetch_and_store_news()
PostCallsService ==
    /\ http_state = "handling"
    /\ calls["manual"] = http_requests - 1
    /\ FetchStart("manual")

\* the response of FetchMetalNewsView.post: 200 with the serialized result,
\* or 500 with success False and an error message from either except clause
ViewResponse(exc, res) ==
    IF exc = "none" THEN [status |-> 200, success |-> res.success, error |-> ""]
    ELSE IF exc = "RSSFeedError"
    THEN [status |-> 500, success |-> FALSE, error |-> "Failed to fetch from RSS feeds"]
    ELSE [status |-> 500, success |-> FALSE, error |-> exc]

PostResponds ==
    /\ http_state = "handling"
    /\ calls["manual"] = http_requests
    /\ pc["manual"] \in {"done", "raised"}
    /\ http_response' = ViewResponse(ServiceRaised("manual"), result["manual"])
    /\ http_state' = "responded"
    /\ UNCHANGED <<task_state, task_retries, task_countdown, task_return, http_requests>>
    /\ UNCHANGED <<newsVars, fetchVars, priceVars, readerVars, signalVars, queryVars>>

InitCallers ==
    /\ task_state = "PENDING"
    /\ task_retries = 0
    /\ task_countdown = 0
    /\ task_return = NoResult
    /\ http_state = "idle"
    /\ http_requests = 0
    /\ http_response = NoHttpResponse

(***************************************************************************)
(* The read side of NewsService: search_news and the filters by source.    *)
(* Strings are sequences of characters, so that strip(), the comparison of *)
(* letter case and substring matching are computed.                        *)
(***************************************************************************)
Whitespace == {" ", "\t"}
QueryChars == Whitespace \cup {"c"}
Queries == SeqsUpTo(QueryChars, MaxQueryLen)

\* the sources of stored articles and of requests
SourceNames == {<<"R">>, <<"r">>, <<"R", "x">>}
Words == {"c", "z"}

\* a stored article: its source, its publish time, the lexemes of its
\* search vector
NewsRows == [source : SourceNames, published_at : 1..2, word : Words]

\* str.strip(): leading and trailing whitespace removed
RECURSIVE Strip(_)
Strip(q) ==
    IF q = <<>> THEN <<>>
    ELSE IF Head(q) \in Whitespace THEN Strip(Tail(q))
    ELSE IF q[Len(q)] \in Whitespace THEN Strip(SubSeq(q, 1, Len(q) - 1))
    ELSE q

\* the lexemes of SearchQuery(query): its words, here its letters
Lexemes(q) == {q[i] : i \in DOMAIN q} \ Whitespace

\* filter(search_vector=search_query): every lexeme of the query is in the
\* vector of the row; a query without lexemes matches no row
Matching(rows, q) ==
    {i \in DOMAIN rows : Lexemes(q) # {} /\ \A w \in Lexemes(q) : w = rows[i].word}

SearchNews_all_when_blank(rows, q) ==
    IF q = <<>> \/ Strip(q) = <<>> THEN DOMAIN rows ELSE Matching(rows, q)

\* search_news(query): MetalNews.objects.none() for an empty or blank
\* query, otherwise the rows matching the search query
SearchNews(rows, q) ==
    IF q = <<>> \/ Strip(q) = <<>> THEN {} ELSE Matching(rows, q)

\* an article is stored (by a fetch) before the queries run
AddNewsRow ==
    /\ Len(news_rows) < MaxNewsRows
    /\ \E r \in NewsRows : news_rows' = Append(news_rows, r)
    /\ UNCHANGED <<query, search_result, source, source_path, source_result>>
    /\ UNCHANGED <<baseVars, searchFrame>>

\* results = service.search_news(query)
SearchNewsCall ==
    /\ \E q \in Queries :
           /\ query' = q
           /\ search_result' = SearchNews(news_rows, q)
    /\ UNCHANGED <<news_rows, source, source_path, source_result>>
    /\ UNCHANGED <<baseVars, searchFrame>>

\* the lower-case form of a character and of a string
LowerChar(c) ==
    IF c = "R" THEN "r" ELSE IF c = "X" THEN "x" ELSE IF c = "S" THEN "s" ELSE c

Lower(str) == [i \in DOMAIN str |-> LowerChar(str[i])]

\* `part` occurs in `str` as a contiguous substring
Contains(str, part) ==
    \E k \in 0..(Len(str) - Len(part)) : SubSeq(str, k + 1, k + Len(part)) = part

\* filter(source=source): equality of the strings, letter case included
\* (get_news_by_source); filter(source__icontains=source_param): the
\* parameter occurs in the source, letter case ignored (MetalNewsListView)
SourceFilter(rows, src, path) ==
    IF path = "service"
    THEN {i \in DOMAIN rows : rows[i].source = src}
    ELSE {i \in DOMAIN rows : Contains(Lower(rows[i].source), Lower(src))}

\* the orders .order_by("-published_at") may give the rows `idxs`
OrderedByPublishedDesc(rows, idxs) ==
    {o \in [1..Cardinality(idxs) -> idxs] :
        /\ \A a, b \in DOMAIN o : a # b => o[a] # o[b]
        /\ \A a, b \in DOMAIN o :
               a < b => rows[o[a]].published_at >= rows[o[b]].published_at}

\* service.get_news_by_source(source), or GET /metal-news/?source=...
BySourceCall ==
    /\ \E src \in SourceNames, path \in {"service", "view"} :
           /\ source' = src
           /\ source_path' = path
           /\ \E o \in OrderedByPublishedDesc(news_rows, SourceFilter(news_rows, src, path)) :
                  source_result' = o
    /\ UNCHANGED <<news_rows, query, search_result>>
    /\ UNCHANGED <<baseVars, searchFrame>>

InitSearch ==
    /\ news_rows = <<>>
    /\ query = <<"c">>
    /\ search_result = {}
    /\ source = <<"R">>
    /\ source_path = "service"
    /\ source_result = <<>>

\* ---- keywords: Keyword.save and the unique name and slug ----

\* the characters of a keyword name: a letter, a space, a punctuation mark
NameChars == {"S", " ", "!"}

Names == SeqsUpTo(NameChars, MaxNameLen) \ {<<>>}

\* the slugs a caller may set itself; the empty one is "not provided"
GivenSlugs == {<<>>, <<"s">>}

\* [^\w\s-], [-\s] and "-_" of django.utils.text.slugify
SlugKept == {"s", "S", "_", " ", "\t", "-"}

SlugSeparators == {" ", "\t", "-"}

SlugEdges == {"-", "_"}

RECURSIVE DropUnkept(_)
DropUnkept(str) ==
    IF str = <<>> THEN <<>>
    ELSE IF Head(str) \in SlugKept THEN <<Head(str)>> \o DropUnkept(Tail(str))
    ELSE DropUnkept(Tail(str))

RECURSIVE SkipSeparators(_)
SkipSeparators(str) ==
    IF str # <<>> /\ Head(str) \in SlugSeparators THEN SkipSeparators(Tail(str))
    ELSE str

\* every run of separators becomes one hyphen
RECURSIVE Hyphenate(_)
Hyphenate(str) ==
    IF str = <<>> THEN <<>>
    ELSE IF Head(str) \in SlugSeparators
         THEN <<"-">> \o Hyphenate(SkipSeparators(str))
    ELSE <<Head(str)>> \o Hyphenate(Tail(str))

RECURSIVE StripLeft(_)
StripLeft(str) ==
    IF str # <<>> /\ Head(str) \in SlugEdges THEN StripLeft(Tail(str)) ELSE str

RECURSIVE StripRight(_)
StripRight(str) ==
    IF str # <<>> /\ str[Len(str)] \in SlugEdges
    THEN StripRight(SubSeq(str, 1, Len(str) - 1))
    ELSE str

\* slugify(self.name)
Slugify(name) == StripRight(StripLeft(Hyphenate(DropUnkept(Lower(name)))))

\* the unique constraints on Keyword.name and Keyword.slug
Conflicts_name_only(rows, row) == \E r \in rows : r.name = row.name

Conflicts(rows, row) == \E r \in rows : r.name = row.name \/ r.slug = row.slug

\* Keyword.objects.create(name=..., slug=...): save() fills an empty slug,
\* then the insert either stores the row or raises IntegrityError
KeywordSave ==
    /\ \E name \in Names, slug \in GivenSlugs :
           LET row == [name |-> name,
                       slug |-> IF slug = <<>> THEN Slugify(name) ELSE slug]
           IN /\ keyword' = [name |-> name, slug |-> slug]
              /\ keywords_before' = keywords
              /\ IF Conflicts(keywords, row)
                 THEN /\ keyword_raised' = TRUE
                      /\ keywords' = keywords
                 ELSE /\ Cardinality(keywords) < MaxKeywords
                      /\ keyword_raised' = FALSE
                      /\ keywords' = keywords \cup {row}
    /\ UNCHANGED <<baseVars, keywordFrame>>

InitKeywords ==
    /\ keywords = {}
    /\ keyword = [name |-> <<"S">>, slug |-> <<"s">>]
    /\ keyword_raised = FALSE
    /\ keywords_before = {}

\* ---- FetchMetalPricesView.post ----

\* the numbers indicatorOne carries, with their count of decimal places:
\* Decimal(str(0.5)) and Decimal(str(0.1 + 0.2))
IndicatorOnes ==
    {[value |-> "0.5", places |-> 1], [value |-> "0.30000000000000004", places |-> 17]}

\* MetalPriceSummarySerializer: DecimalField(max_digits=20, decimal_places=10)
\* rejects a value with more decimal places
SummaryValid(v) == v.places <= decimal_places

\* FetchResponseSerializer(data=result).is_valid(raise_exception=True)
ResponseValid(created, v) == created = <<>> \/ SummaryValid(v)

\* the request is validated and fetch_and_store_prices is called
PricePostCallsService ==
    /\ price_http_state \in {"idle", "responded"}
    /\ PriceStartCall
    /\ \E v \in IndicatorOnes : indicator_one' = v
    /\ price_http_state' = "handling"
    /\ UNCHANGED price_http_response
    /\ UNCHANGED <<baseVarsButPrices, priceViewFrame>>

\* the try block after the call and the two except clauses: the response
\* the view returns
PriceViewResponse(how, created, v) ==
    IF how = "done" /\ ResponseValid(created, v)
    THEN [status |-> 200, success |-> TRUE, error |-> ""]
    ELSE IF how = "external_api_error"
    THEN [status |-> 500, success |-> FALSE,
          error |-> "Failed to fetch from external API: ..."]
    ELSE [status |-> 500, success |-> FALSE, error |-> "str(e)"]

PricePostResponds ==
    /\ price_http_state = "handling"
    /\ price_pc \in {"done", "raised", "external_api_error"}
    /\ price_http_response' = PriceViewResponse(price_pc, prices_to_create, indicator_one)
    /\ price_http_state' = "responded"
    /\ UNCHANGED indicator_one
    /\ UNCHANGED <<baseVars, priceViewFrame>>

InitPriceView ==
    /\ price_http_state = "idle"
    /\ price_http_response = NoHttpResponse
    /\ indicator_one = [value |-> "0.5", places |-> 1]

InitQueries ==
    /\ InitParse
    /\ InitSearch
    /\ InitKeywords
    /\ InitPriceView

InitNews ==
    /\ pending = [p \in Procs |-> NoRow]
    /\ pc = [p \in Procs |-> "idle"]
    /\ calls = [p \in Procs |-> 0]
    /\ articles = [p \in Procs |-> <<>>]
    /\ idx = [p \in Procs |-> 1]
    /\ inserted_count = [p \in Procs |-> 0]
    /\ skipped_count = [p \in Procs |-> 0]
    /\ dropped_count = [p \in Procs |-> 0]
    /\ outcome = [p \in Procs |-> <<>>]
    /\ result = [p \in Procs |-> NoResult]
    /\ race = NoRace
    /\ term = [p \in Procs |-> 1]
    /\ all_articles = [p \in Procs |-> <<>>]
    /\ term_log = [p \in Procs |-> <<>>]
    /\ run_log = <<>>

(***************************************************************************)
(* Spec: the two callers of the news store, each handing candidate lists   *)
(* to _process_and_store, and the administrator.                           *)
(***************************************************************************)
Init ==
    /\ InitNews
    /\ InitPrices
    /\ InitSignal
    /\ InitCallers
    /\ InitQueries
    /\ metal_news = <<>>
    /\ feed = NoFeed

Next ==
    \/ \E p \in Procs : ProcessAndStore(p)
    \/ \E p \in Procs : CheckExists(p)
    \/ \E p \in Procs : Create(p)
    \/ \E p \in Procs : StorageError(p)
    \/ \E p \in Procs : Commit(p)
    \/ \E p \in Procs : Return(p)
    \/ \E i \in DOMAIN metal_news : SoftDelete(i)

Spec == Init /\ [][Next]_vars

(***************************************************************************)
(* SpecFetch: fetch_and_store_news run MaxRuns times in sequence against   *)
(* one feed, on a table that an earlier fetch and the administrator may    *)
(* have left.                                                              *)
(***************************************************************************)
InitialTables ==
    {<<>>,
     <<[url |-> "https://x/a", title |-> "t2", deleted |-> FALSE]>>,
     <<[url |-> "https://x/a", title |-> "t2", deleted |-> TRUE]>>}

InitFetch ==
    /\ InitNews
    /\ InitPrices
    /\ InitSignal
    /\ InitCallers
    /\ InitQueries
    /\ metal_news \in InitialTables
    /\ feed \in [DOMAIN search_terms -> FeedResponses]

NextFetch ==
    \/ \E p \in FetchProcs : FetchStart(p)
    \/ \E p \in FetchProcs : FetchTerm(p)
    \/ \E p \in FetchProcs : Merge(p)
    \/ \E p \in FetchProcs : CheckExists(p)
    \/ \E p \in FetchProcs : Create(p)
    \/ \E p \in FetchProcs : StorageError(p)
    \/ \E p \in FetchProcs : Commit(p)
    \/ \E p \in FetchProcs : Return(p)

SpecFetch == InitFetch /\ [][NextFetch]_vars

(***************************************************************************)
(* SpecPrices: price fetches in sequence, the clock, and a reader of the   *)
(* latest batch running beside them.                                       *)
(***************************************************************************)
NextPrices ==
    \/ Tick
    \/ PriceStart
    \/ PriceItem
    \/ PriceBulkCreate
    \/ ReadLatestFetch
    \/ ReadFilter

SpecPrices == Init /\ [][NextPrices]_vars

\* the price fetch, with a caller of get_price_by_symbol beside it
NextLookup ==
    \/ Tick
    \/ PriceStart
    \/ PriceItem
    \/ PriceBulkCreate
    \/ LookupLatestFetch
    \/ LookupGet

SpecLookup == Init /\ [][NextLookup]_vars

\* one scheduled run of fetch_metal_news_task against one feed
InitTask ==
    /\ InitNews
    /\ InitPrices
    /\ InitSignal
    /\ InitCallers
    /\ InitQueries
    /\ metal_news = <<>>
    /\ feed \in [DOMAIN search_terms -> FeedResponses]

NextTask ==
    \/ TaskRun
    \/ TaskCallsService
    \/ FetchTerm("task")
    \/ Merge("task")
    \/ CheckExists("task")
    \/ Create("task")
    \/ StorageError("task")
    \/ Commit("task")
    \/ Return("task")
    \/ TaskFinish

SpecTask == InitTask /\ [][NextTask]_vars

\* POST requests to FetchMetalNewsView against one feed
NextView ==
    \/ PostReceived
    \/ PostCallsService
    \/ FetchTerm("manual")
    \/ Merge("manual")
    \/ CheckExists("manual")
    \/ Create("manual")
    \/ StorageError("manual")
    \/ Commit("manual")
    \/ Return("manual")
    \/ PostResponds

SpecView == InitTask /\ [][NextView]_vars

\* _fetch_rss_feed alone, on every feed and limit of the bounds
NextParse ==
    \/ FetchRssFeedCall

SpecParse == Init /\ [][NextParse]_vars

\* search_news on every store and query of the bounds
NextSearch ==
    \/ AddNewsRow
    \/ SearchNewsCall

SpecSearch == Init /\ [][NextSearch]_vars

\* POST requests to the price fetch endpoint, one at a time
NextPriceView ==
    \/ PricePostCallsService
    \/ PriceItem
    \/ PriceBulkCreate
    \/ PricePostResponds

SpecPriceView == Init /\ [][NextPriceView]_vars

\* the saves of keywords
NextKeywords == KeywordSave

SpecKeywords == Init /\ [][NextKeywords]_vars

\* the filters by source on every store and source of the bounds
NextSource ==
    \/ AddNewsRow
    \/ BySourceCall

SpecSource == Init /\ [][NextSource]_vars

\* the writes of one article and the receiver of their post_save signals
NextSignal ==
    \/ NewsCreate
    \/ Load
    \/ Assign
    \/ Save
    \/ update_search_vector
    \/ SaveReturns

SpecSignal == Init /\ [][NextSignal]_vars

\* save() is one synchronous call: a receiver that was sent a signal runs,
\* and save() returns once every receiver has
SpecSignalFair ==
    /\ SpecSignal
    /\ WF_vars(update_search_vector)
    /\ WF_vars(SaveReturns)

(***************************************************************************)
(* Properties of the news store under its two callers (Spec).              *)
(***************************************************************************)

\* history: the candidates of the current call of p that ended as one of `hows`
HowCount(p, hows) == Cardinality({k \in DOMAIN outcome[p] : outcome[p][k].how \in hows})

\* C1: in every reachable state, whatever the interleaving of the callers'
\* store calls, no two rows of metal_news (soft-deleted rows included, and
\* the rows of open transactions too) have the same url.
C1_UrlUnique ==
    /\ \A i, j \in DOMAIN metal_news :
           i # j => metal_news[i].url # metal_news[j].url
    /\ \A p \in Procs :
           pending[p] # NoRow =>
               /\ \A i \in DOMAIN metal_news : metal_news[i].url # pending[p].url
               /\ \A q \in Procs \ {p} : pending[q].url # pending[p].url

\* two overlapping calls have both finished, both were offered both urls,
\* and the table holds one row for each url
C1_Witness ==
    /\ \A p \in Procs : pc[p] = "done" /\ Len(articles[p]) = 2
                        /\ articles[p][1].url # articles[p][2].url
    /\ race.url # ""
    /\ Len(metal_news) = 2

C3_CountsAddUp ==
    \A p \in Procs :
        (pc[p] = "done" /\ "skipped" \in DOMAIN result[p])
        => result[p].inserted + result[p].skipped = result[p].total_fetched

\* C3 amended: inserted + skipped + (the candidates whose storage raised an
\* error other than a uniqueness violation) == total_fetched, the number of
\* candidates handed in; so inserted + skipped == total_fetched exactly
\* when no candidate was dropped.
C3_CountsAddUpWithDropped ==
    \A p \in Procs :
        (pc[p] = "done" /\ "skipped" \in DOMAIN result[p])
        => /\ result[p].total_fetched = Len(articles[p])
           /\ result[p].inserted = HowCount(p, {"inserted"})
           /\ result[p].skipped = HowCount(p, {"exists", "integrity"})
           /\ result[p].inserted + result[p].skipped + HowCount(p, {"error"})
                  = result[p].total_fetched

\* a call of two candidates has returned: one inserted, one dropped
C3_Witness ==
    \E p \in Procs :
        /\ pc[p] = "done"
        /\ result[p].total_fetched = 2
        /\ HowCount(p, {"error"}) = 1
        /\ result[p].inserted = 1

(***************************************************************************)
(* Properties of fetch_and_store_news (SpecFetch).                         *)
(***************************************************************************)

UrlsOf(s) == {s[i].url : i \in DOMAIN s}

RowUrls(table) == {table[i].url : i \in DOMAIN table}

LastWithUrl(s, u) ==
    s[CHOOSE i \in DOMAIN s :
          s[i].url = u /\ \A j \in DOMAIN s : s[j].url = u => j <= i]

PastLoop_pcs == {"check", "create", "commit", "return", "done"}

PastLoop(p) == pc[p] \in PastLoop_pcs

C5_MergedByUrl ==
    \A p \in FetchProcs :
        (PastLoop(p) /\ all_articles[p] # <<>>)
        => /\ \A i, j \in DOMAIN articles[p] :
                  i # j => articles[p][i].url # articles[p][j].url
           /\ UrlsOf(articles[p]) = UrlsOf(all_articles[p])
           /\ \A i \in DOMAIN articles[p] :
                  articles[p][i] = LastWithUrl(all_articles[p], articles[p][i].url)
           /\ \A u \in Urls :
                  Cardinality({k \in DOMAIN outcome[p] :
                      outcome[p][k].url = u /\ outcome[p][k].how = "inserted"}) <= 1
           /\ pc[p] = "done"
                  => result[p].total_fetched = Cardinality(UrlsOf(all_articles[p]))

\* two terms returned the same url with different titles: one candidate,
\* the later title, one insert
C5_Witness ==
    \E p \in FetchProcs :
        /\ pc[p] = "done"
        /\ Len(all_articles[p]) = 2
        /\ all_articles[p][1].url = all_articles[p][2].url
        /\ all_articles[p][1].title # all_articles[p][2].title
        /\ result[p].total_fetched = 1
        /\ result[p].inserted = 1
        /\ \E i \in DOMAIN metal_news : metal_news[i].title = all_articles[p][2].title

RECURSIVE Contributions(_, _)
Contributions(log, k) ==
    IF k = 0 THEN <<>>
    ELSE Contributions(log, k - 1)
         \o (IF log[k].raised = "none" THEN log[k].articles ELSE <<>>)

TransformRaises(it) == it.material # "" /\ ~DecimalOk(LatestPrice(it))

BatchRows(table, b) == {i \in DOMAIN table : table[i].batch = b}

RECURSIVE MaterialsOf(_)
MaterialsOf(d) ==
    IF d = <<>> THEN <<>>
    ELSE (IF Head(d).material = "" THEN <<>> ELSE <<Head(d).material>>)
         \o MaterialsOf(Tail(d))

\* C7: when the transformation of an item of the payload raises, the call
\* ends without any row of the batch in the table, the rows of the valid
\* items before it included: the table is the one the call found.
C7_BatchAtomic ==
    (price_pc \in {"done", "raised"} /\ \E i \in DOMAIN data : TransformRaises(data[i]))
    => /\ price_pc = "raised"
       /\ metal_prices = prices_before
       /\ BatchRows(metal_prices, price_calls) = {}

\* the second fetch raised on its second item, after a valid first item,
\* and the table still holds the first batch alone
C7_Witness ==
    /\ price_pc = "raised"
    /\ price_calls = 2
    /\ item = 2
    /\ Len(prices_to_create) = 1
    /\ Len(metal_prices) = 2
    /\ metal_prices = prices_before

\* C8: the list the reader got holds, for each price fetch, either every
\* row of that batch in the table (that its symbol filter admits) or none;
\* and a fetch under way has no row in the table.
C8_NoPartialBatch ==
    /\ reader_pc = "done" =>
           \A b \in 1..MaxFetches :
               LET got == {k \in DOMAIN read_result : read_result[k].batch = b}
                   all == {i \in BatchRows(metal_prices, b) :
                              symbols = {} \/ metal_prices[i].symbol \in symbols}
               IN  got = {} \/ Cardinality(got) = Cardinality(all)
    /\ price_pc = "loop" => BatchRows(metal_prices, price_calls) = {}

\* the reader returned the two rows of the first batch, unfiltered, in a
\* state where the second batch is committed too
C8_Witness ==
    /\ reader_pc = "done"
    /\ symbols = {}
    /\ Len(read_result) = 2
    /\ \A k \in DOMAIN read_result : read_result[k].batch = 1
    /\ Cardinality(BatchRows(metal_prices, 2)) = 2
    /\ \E i \in DOMAIN metal_prices : metal_prices[i].fetched_at > read_result[1].fetched_at

\* C9: the rows of one price fetch carry one fetched_at, the value read
\* before the first item, and the returned fetched_at is that value.
C9_OneFetchedAt ==
    /\ \A i, j \in DOMAIN metal_prices :
           metal_prices[i].batch = metal_prices[j].batch
               => metal_prices[i].fetched_at = metal_prices[j].fetched_at
    /\ \A k \in DOMAIN prices_to_create : prices_to_create[k].fetched_at = fetched_at
    /\ price_pc = "done" =>
           /\ price_result.fetched_at = fetched_at
           /\ \A i \in BatchRows(metal_prices, price_calls) :
                  metal_prices[i].fetched_at = price_result.fetched_at

\* a fetch inserted two rows and the clock moved on after it had started
C9_Witness ==
    /\ price_pc = "done"
    /\ price_result.inserted = 2
    /\ Cardinality(BatchRows(metal_prices, price_calls)) = 2
    /\ now > price_result.fetched_at

\* C10: an item without a material is skipped and does not fail the batch:
\* a call that returns has inserted one row per item with a material, in
\* payload order, and returns that number; a call raises only on an item
\* that has a material.
C10_SkipsMissingMaterial ==
    /\ price_pc = "done" =>
           /\ price_result.inserted = Len(MaterialsOf(data))
           /\ price_result.prices = MaterialsOf(data)
           /\ Cardinality(BatchRows(metal_prices, price_calls)) = Len(MaterialsOf(data))
           /\ \A i \in DOMAIN metal_prices : metal_prices[i].symbol # ""
    /\ price_pc = "raised" => data[item].material # ""
    /\ price_pc \in {"done", "raised"} =>
           ((\A i \in DOMAIN data : ~TransformRaises(data[i])) => price_pc = "done")

\* the payload of the test: a first item without material, a valid second one
C10_Witness ==
    /\ price_pc = "done"
    /\ Len(data) = 2
    /\ data[1].material = ""
    /\ data[2].material = "Tense"
    /\ price_result.inserted = 1
    /\ Len(metal_prices) = 1

(***************************************************************************)
(* Claims about the price history and its readers.                         *)
(***************************************************************************)

\* C11: a price fetch only adds rows: at every step each row of the table
\* stays where it is with the fields it had, and the step that completes a
\* fetch appends one row per item of the payload that has a material, in
\* payload order, whatever earlier batches hold (no lookup, no upsert).
C11_AppendOnly ==
    [][/\ Len(metal_prices') >= Len(metal_prices)
       /\ \A i \in DOMAIN metal_prices : metal_prices'[i] = metal_prices[i]
       /\ (price_pc = "loop" /\ price_pc' = "done") =>
              /\ Len(metal_prices') = Len(metal_prices) + Len(MaterialsOf(data))
              /\ \A k \in 1..Len(MaterialsOf(data)) :
                     /\ metal_prices'[Len(metal_prices) + k].symbol = MaterialsOf(data)[k]
                     /\ metal_prices'[Len(metal_prices) + k].batch = price_calls]_vars

\* the same two-item payload was fetched twice: the table holds two batches
\* of two rows with the same symbols and prices
C11_Witness ==
    /\ price_pc = "done"
    /\ price_calls = 2
    /\ Len(metal_prices) = 4
    /\ metal_prices[1].symbol # metal_prices[2].symbol
    /\ \A k \in 1..2 :
           /\ metal_prices[k].batch = 1
           /\ metal_prices[k + 2].batch = 2
           /\ metal_prices[k + 2].symbol = metal_prices[k].symbol
           /\ metal_prices[k + 2].price_usd = metal_prices[k].price_usd

\* C12: a price fetch whose request fails (connection error, timeout,
\* non-2xx status) or whose response body is not a list ends by raising
\* ExternalAPIError, with no row staged or written: the table is the one
\* the call found. A fetch raises ExternalAPIError in no other case.
C12_ExternalAPIError ==
    /\ (price_pc \in {"done", "raised", "external_api_error"} /\ response.kind # "list")
           => /\ price_pc = "external_api_error"
              /\ metal_prices = prices_before
              /\ prices_to_create = <<>>
              /\ BatchRows(metal_prices, price_calls) = {}
              /\ price_result = NoResult
    /\ price_pc = "external_api_error" => response.kind \in RequestFailures \cup {"not_list"}
    /\ price_pc = "loop" => response.kind = "list"

\* after a first batch of two rows, the second fetch got a body that is not
\* a list and raised; the two rows are all the table holds
C12_Witness ==
    /\ price_pc = "external_api_error"
    /\ response.kind = "not_list"
    /\ price_calls = 2
    /\ Len(metal_prices) = 2

\* the rows the reader's queries could see: the first n committed rows
RowsSeen(n) == SubSeq(metal_prices, 1, n)

\* what the claim asks of the list returned over the rows `table`: exactly
\* the rows of the greatest fetched_at, of the symbols asked for, by symbol
\* ascending
IsLatestBatch(res, table, at, sy) ==
    /\ Len(res) = Cardinality(Selected(table, at, sy))
    /\ \A k \in DOMAIN res : \E i \in Selected(table, at, sy) : table[i] = res[k]
    /\ \A i \in Selected(table, at, sy) : \E k \in DOMAIN res : res[k] = table[i]
    /\ \A a, b \in DOMAIN res :
           a < b => SymbolRank(res[a].symbol) <= SymbolRank(res[b].symbol)

LookupMatches ==
    {i \in 1..lookup_seen :
        /\ lookup_latest # <<>>
        /\ metal_prices[i].fetched_at = lookup_latest[1]
        /\ metal_prices[i].symbol = lookup_symbol}

\* C14: get_price_by_symbol never raises: whenever a call has ended, it has
\* returned None (empty store, or no row of the latest batch with the
\* symbol) or a row of the latest batch with exactly that symbol.
C14_BySymbolNeverRaises ==
    /\ lookup_pc # "raised"
    /\ lookup_raised = "none"
    /\ lookup_pc = "done" =>
           IF LookupMatches = {} THEN lookup_result = <<>>
           ELSE /\ Len(lookup_result) = 1
                /\ \E i \in LookupMatches : metal_prices[i] = lookup_result[1]

(***************************************************************************)
(* Claims about the search vector.                                         *)
(***************************************************************************)

\* the running save wrote content: the insert, a full save, or a save whose
\* update_fields names title, description or source
ContentAffecting == update_fields = {} \/ update_fields \cap ContentFields # {}

\* C15: once a save that writes content has returned (the insert of the
\* news fetch, a full save, a save whose update_fields names title,
\* description or source), the stored search vector is the weighted vector
\* of the stored title (A), description (B) and source (C).
C15_VectorReflectsContent ==
    (save_pc = "done" /\ ContentAffecting) => article.search_vector = WeightedVector(article)

\* C16: a save sends one post_save and recomputes the search vector at most
\* once: the UPDATE of the recomputation sends no further signal, a save
\* with update_fields = [search_vector] recomputes nothing, and every save
\* that has started returns.
C16_OneRecomputation ==
    /\ [](/\ recomputations <= 1
          /\ post_save <= 1
          /\ recomputations = 1 => post_save = 0
          /\ update_fields = {"search_vector"} => recomputations = 0)
    /\ (save_pc = "sent" ~> save_pc = "done")

\* a save of the title alone has returned after one recomputation
C16_Witness ==
    /\ save_pc = "done"
    /\ update_fields = {"title"}
    /\ recomputations = 1
    /\ post_save = 0
    /\ article.search_vector = WeightedVector(article)

(***************************************************************************)
(* Claims about the callers of the news fetch.                             *)
(***************************************************************************)

\* the request of some search term failed at transport level in the run of p
TransportFailure(p) ==
    \E t \in DOMAIN term_log[p] : feed[t].kind = "request_error"

\* C17: in a scheduled run, when the request of a search term fails at
\* transport level, the task does not complete with a success result: the
\* attempt ends re-scheduled (RETRY) with a countdown of 300 seconds.
C17_TransportFailureRetried ==
    (task_state \in {"RETRY", "SUCCESS", "FAILURE"} /\ TransportFailure("task"))
        => /\ task_state = "RETRY"
           /\ task_countdown = RetryCountdown
           /\ task_return = NoResult

\* C18: when the request of every search term fails at transport level on
\* every attempt, the task is retried at most max_retries times and then
\* ends in the failed state: it never ends as a success.
C18_RetriesBounded ==
    /\ task_retries <= max_retries
    /\ (\A t \in DOMAIN feed : feed[t].kind = "request_error") =>
           /\ task_state # "SUCCESS"
           /\ task_state = "FAILURE" => task_retries = max_retries

\* C19: on a manual trigger, when the request of a search term fails at
\* transport level, the view answers with a non-success result carrying an
\* error message, not with success == true.
C19_ManualTransportFailure ==
    (http_state = "responded" /\ TransportFailure("manual"))
        => /\ http_response.success = FALSE
           /\ http_response.status = 500
           /\ http_response.error # ""

\* C20: whenever the HTTP get of a search term fails, with whatever
\* exception requests.get raises, _fetch_rss_feed leaves with RSSFeedError.
C20_RequestFailureIsRSSFeedError ==
    \A p \in FetchProcs : \A t \in DOMAIN term_log[p] :
        feed[t].kind \in {"request_error", "other_error"}
            => term_log[p][t].raised = "RSSFeedError"

(***************************************************************************)
(* Claims about the result and the candidates of the news fetch.           *)
(***************************************************************************)

ResultFields == {"success", "message", "inserted", "skipped", "total_fetched"}

\* C21: every result a fetch run returns is a success result with the five
\* fields success, message, inserted, skipped and total_fetched; the result
\* of a run in which no article survived has inserted = 0 and
\* total_fetched = 0.
C21_ResultHasFiveFields ==
    \A p \in FetchProcs :
        (pc[p] = "done" /\ calls[p] > 0) =>
            /\ ResultFields \subseteq DOMAIN result[p]
            /\ result[p].success = TRUE
            /\ all_articles[p] = <<>> =>
                   (result[p].inserted = 0 /\ result[p].total_fetched = 0)

\* C22: a storage error that is no uniqueness violation drops one candidate
\* and nothing else: the call never raises, the candidates it stored before
\* stay in the table, the loop goes on to every later candidate, and the
\* call returns a success result.
C22_StorageErrorDropsOne ==
    \A p \in Procs :
        /\ pc[p] # "raised"
        /\ dropped_count[p] = HowCount(p, {"error"})
        /\ \A k \in DOMAIN outcome[p] :
               outcome[p][k].how = "inserted" =>
                   \E i \in DOMAIN metal_news : metal_news[i].url = outcome[p][k].url
        /\ pc[p] \in {"check", "create", "commit"} =>
               (idx[p] = Len(outcome[p]) + 1 /\ idx[p] <= Len(articles[p]))
        /\ pc[p] = "return" => Len(outcome[p]) = Len(articles[p])
        /\ (pc[p] = "done" /\ calls[p] > 0) =>
               /\ Len(outcome[p]) = Len(articles[p])
               /\ result[p].success = TRUE

\* a call has returned whose first candidate was stored, then soft-deleted
\* or not, and whose second candidate was dropped by a storage error
C22_Witness ==
    \E p \in Procs :
        /\ pc[p] = "done"
        /\ Len(outcome[p]) = 2
        /\ outcome[p][1].how = "inserted"
        /\ outcome[p][2].how = "error"
        /\ \E i \in DOMAIN metal_news : metal_news[i].url = outcome[p][1].url
        /\ result[p].success = TRUE
        /\ result[p].inserted = 1

\* C23: a feed that the parser flags as malformed counts as zero results
\* for its term: none of its entries becomes a candidate article, and the
\* other terms of the run are still fetched.
C23_MalformedFeedIsEmpty ==
    \A p \in FetchProcs :
        /\ \A t \in DOMAIN term_log[p] :
               feed[t].bozo => term_log[p][t].articles = <<>>
        /\ (pc[p] \in PastLoop_pcs /\ calls[p] > 0) => Len(term_log[p]) = Len(search_terms)

\* the article an entry is turned into
ArticleOf(e) == [url |-> e.link, title |-> e.title]

\* the entries of the first `limit` that have a link and parse
Kept(es, limit) ==
    {k \in 1..Len(es) : k <= limit /\ es[k].link # "" /\ ~es[k].raises}

\* C24: the list _fetch_rss_feed returns for a feed holds one article for
\* each of the first FETCH_LIMIT entries that has a link and whose parsing
\* does not raise, in feed order, and nothing else: every article has a
\* non-empty url, an entry beyond the limit gives none, an entry without a
\* link or with a parsing error is skipped while the entries after it are
\* kept, and the list is never longer than FETCH_LIMIT.
C24_FirstEntriesOnly ==
    LET es == parse_feed.entries
        out == parse_out.articles
        kept == Kept(es, parse_limit)
    IN  /\ parse_out.raised = "none"
        /\ Len(out) <= parse_limit
        /\ Len(out) = Cardinality(kept)
        /\ \A i \in DOMAIN out : out[i].url # ""
        /\ \A i \in DOMAIN out :
               \E k \in kept :
                   /\ out[i] = ArticleOf(es[k])
                   /\ Cardinality({j \in kept : j < k}) = i - 1

\* a feed of three entries under a limit of two: the first has no link, the
\* second gives the one article returned, the third is beyond the limit
C24_Witness ==
    /\ parse_limit = 2
    /\ Len(parse_feed.entries) = 3
    /\ parse_feed.entries[1].link = ""
    /\ Kept(parse_feed.entries, 2) = {2}
    /\ parse_feed.entries[3].link # ""
    /\ ~parse_feed.entries[3].raises
    /\ Len(parse_out.articles) = 1
    /\ parse_out.articles[1] = ArticleOf(parse_feed.entries[2])

(***************************************************************************)
(* Claims about the read side of the news service.                         *)
(***************************************************************************)

\* the query has no character that is not whitespace
Blank(q) == \A i \in DOMAIN q : q[i] \in Whitespace

\* C25: search_news with an empty or whitespace-only query returns no row,
\* whatever the store holds; only a query with a word can return rows.
C25_BlankQueryReturnsNothing ==
    /\ Blank(query) => search_result = {}
    /\ search_result # {} => (~Blank(query) /\ search_result \subseteq DOMAIN news_rows)

\* a whitespace-only query of two characters on a store of two articles
\* returned nothing
C25_Witness ==
    /\ Len(query) = 2
    /\ Blank(query)
    /\ Len(news_rows) = 2
    /\ search_result = {}

\* C26: the by-source query returns an article if and only if its source
\* equals the source asked for, letter case ignored, whichever way it is
\* asked (the service call or the list view), by publish time descending.
C26_SourceExactIgnoringCase ==
    [][news_rows' = news_rows =>
        /\ {source_result'[k] : k \in DOMAIN source_result'}
               = {i \in DOMAIN news_rows : Lower(news_rows[i].source) = Lower(source')}
        /\ \A a, b \in DOMAIN source_result' :
               a < b => news_rows[source_result'[a]].published_at
                            >= news_rows[source_result'[b]].published_at]_vars

\* C27: a keyword saved without a slug is stored with the slug derived from
\* its name ("S S" gives "s-s"); no two stored keywords share a name or a
\* slug; a save that meets an existing name or slug raises the uniqueness
\* violation and leaves the table as it was.
C27_KeywordSlugUnique ==
    /\ \A a, b \in keywords : (a.name = b.name \/ a.slug = b.slug) => a = b
    /\ keywords # keywords_before /\ keyword.slug = <<>>
           => [name |-> keyword.name, slug |-> Slugify(keyword.name)] \in keywords
    /\ keywords # keywords_before /\ keyword = [name |-> <<"S", " ", "S">>, slug |-> <<>>]
           => [name |-> <<"S", " ", "S">>, slug |-> <<"s", "-", "s">>] \in keywords
    /\ keyword_raised => keywords = keywords_before
    /\ (\E r \in keywords_before :
            r.slug = (IF keyword.slug = <<>> THEN Slugify(keyword.name) ELSE keyword.slug))
           => keyword_raised /\ keywords = keywords_before

\* a second keyword whose derived slug equals a stored slug, under another
\* name, was refused
C27_Witness ==
    /\ keyword_raised
    /\ keyword.slug = <<>>
    /\ \E r \in keywords : r.slug = Slugify(keyword.name) /\ r.name # keyword.name
    /\ \E r \in keywords : r.name = <<"S", " ", "S">> /\ r.slug = <<"s", "-", "s">>

\* C28: the price fetch endpoint answers 200 with success = TRUE whenever the
\* fetch succeeded, and 500 with success = FALSE and an error text whenever
\* the fetch raised (ExternalAPIError or any other exception).
C28_StructuredPriceResult ==
    price_http_state = "responded" =>
        /\ price_pc = "done" =>
               price_http_response.status = 200 /\ price_http_response.success
        /\ price_pc \in {"raised", "external_api_error"} =>
               /\ price_http_response.status = 500
               /\ ~price_http_response.success
               /\ price_http_response.error # ""

\* C29: a news fetch never changes a stored article: every row of the table
\* is in the same place with the same url, title and flag after every step
\* of a run, also when the feed carries other content under its url.
C29_StoredArticlesUnchanged ==
    [][\A i \in DOMAIN metal_news :
          i \in DOMAIN metal_news' /\ metal_news'[i] = metal_news[i]]_vars

\* a finished run that met a stored url under another title, the stored
\* title still in place
C29_Witness ==
    \E p \in FetchProcs :
        /\ pc[p] = "done"
        /\ \E k \in DOMAIN outcome[p] : outcome[p][k].how = "exists"
        /\ \E k \in DOMAIN articles[p] :
               articles[p][k] = [url |-> "https://x/a", title |-> "t1"]
        /\ metal_news # <<>>
        /\ metal_news[1] = [url |-> "https://x/a", title |-> "t2", deleted |-> FALSE]

SoftDeletedUrls == {metal_news[i].url : i \in {j \in DOMAIN metal_news : metal_news[j].deleted}}

RowsWithUrl(u) == {i \in DOMAIN metal_news : metal_news[i].url = u}

\* C30 as stated: a candidate whose url is held by a soft-deleted row always
\* ends at the uniqueness violation and is counted as skipped; the table
\* keeps one row, soft-deleted, for that url.
C30_SoftDeletedSkipped ==
    \A p \in FetchProcs :
        /\ \A k \in DOMAIN outcome[p] :
               outcome[p][k].url \in SoftDeletedUrls => outcome[p][k].how = "integrity"
        /\ \A u \in SoftDeletedUrls : Cardinality(RowsWithUrl(u)) = 1
        /\ pc[p] = "done" => skipped_count[p] = HowCount(p, {"exists", "integrity"})

\* C30 amended: such a candidate is never inserted and never seen by the
\* existence check; it ends at the uniqueness violation, counted as skipped,
\* unless its storage raised another error, and then it is dropped; the
\* run returns, and the table keeps one row, soft-deleted, for that url.
C30_SoftDeletedNotReinserted ==
    \A p \in FetchProcs :
        /\ \A k \in DOMAIN outcome[p] :
               outcome[p][k].url \in SoftDeletedUrls
                   => outcome[p][k].how \in {"integrity", "error"}
        /\ \A u \in SoftDeletedUrls : Cardinality(RowsWithUrl(u)) = 1
        /\ pc[p] = "done" =>
               /\ skipped_count[p] = HowCount(p, {"exists", "integrity"})
               /\ dropped_count[p] = HowCount(p, {"error"})
               /\ result[p].success

\* a finished run that carried the url of the soft-deleted row: skipped at
\* the uniqueness violation, the table as it was
C30_Witness ==
    \E p \in FetchProcs :
        /\ pc[p] = "done"
        /\ metal_news = <<[url |-> "https://x/a", title |-> "t2", deleted |-> TRUE]>>
        /\ \E k \in DOMAIN outcome[p] :
               outcome[p][k] = [url |-> "https://x/a", how |-> "integrity"]
        /\ result[p].success /\ result[p].skipped >= 1

====
